---- MODULE Spec2Model ----
(***************************************************************************)
(* Button-triggered photo capture (ESP32-S3-WROOM-SDTF-Photograph.ino).    *)
(*                                                                         *)
(* The sketch is single threaded: loop() polls the button, debounces it,   *)
(* calls takePhoto(), waits for the button to be released and re-arms.     *)
(* The model follows one thread of control through loop() and takePhoto()  *)
(* with a program counter, the millisecond clock millis(), the level of    *)
(* the button line, the frame-buffer driver and the /camera directory.     *)
(* Time passes only inside Elapse: one millisecond per loop() iteration,   *)
(* per frame grab and per file write, and the argument of every delay().   *)
(* The button line may change level whenever time passes.  A run starts    *)
(* with setup(), which mounts the card, makes the /camera directory and    *)
(* initialises the camera.                                                 *)
(***************************************************************************)
EXTENDS Integers, Sequences, FiniteSets, TLC

\* ------------------------------------------------------------------------
\* Program constants
\* ------------------------------------------------------------------------
DEBOUNCE_MS == 40

RELEASE_TIMEOUT == 2000

RELEASE_POLL == 5

HIGH == TRUE

LOW == FALSE

\* #define LED_PIN -1: no indicator line is wired
LED_PIN == -1

\* delay(100) of the halt loop in setup()
BLINK_MS == 100

\* millis(), edge and t0 are uint32_t.  TLC's integers are 32-bit signed, so
\* the counter is modelled 30 bits wide: it counts modulo 2^30, and int is
\* the signed type of the same width
U32 == 2^30

\* ------------------------------------------------------------------------
\* Bounds of the model
\* ------------------------------------------------------------------------
\* free run: the line may change at any millisecond up to MaxTime
MaxTime == 90

\* stuck-control run: the line may change only in the first HoldWindow ms,
\* once at ReleaseAt ms and once at RepressAt ms, and the run is followed up
\* to HoldTime ms
HoldWindow == 4

ReleaseAt == 50

RepressAt == 96

HoldTime == 2100

\* a stuck-control run may begin after a long idle time, WrapLead ms before
\* the millisecond counter wraps around
WrapLead == 120

\* number of injected faults (no card or no directory at start-up, no frame,
\* count error, open/write/flush error)
MaxFaults == 1

\* at power-up the card is empty or holds one leftover file n.jpg, n in
\* 1 .. MaxInitIdx
MaxInitIdx == 1

\* a used card holds the files 0.jpg .. (CardFiles-1).jpg at power-up
CardFiles == 42

VARIABLES
  ms,          \* millis()
  up,          \* milliseconds since power-up, not wrapped
  base,        \* value of up at which the run begins to be followed
  edgeUp,      \* value of up when edge was assigned
  btn,         \* level of BUTTON_PIN
  last,        \* loop(): static bool last
  edge,        \* loop(): static uint32_t edge
  now,         \* loop(): bool now
  t0,          \* loop(): uint32_t t0
  dly,         \* milliseconds left of delay(DEBOUNCE_MS)
  pc,          \* position of the thread of control
  fb,          \* takePhoto(): fb is non-null
  fbOut,       \* frames handed out by the camera driver and not returned
  idx,         \* takePhoto(): int idx
  byClock,     \* idx was taken from millis()
  existed,     \* the file opened by takePhoto() existed before the open
  fState,      \* takePhoto(): File f  ("none", "invalid", "open", "closed")
  wrOk,        \* f.write wrote the whole payload
  flOk,        \* f.flush succeeded
  ops,         \* calls made by the takePhoto() in progress, in order
  out,         \* line printed on Serial by the takePhoto() in progress
  files,       \* indices n such that /camera/n.jpg exists
  usedIdx,     \* indices of the captures saved so far in this session
  clockIdx,    \* indices taken from millis() so far in this session
  wdt,         \* esp_task_wdt_reset() calls of the wait in progress
  timedOut,    \* the wait was left through the timeout break
  faults,      \* faults injected so far
  pressLen,    \* time the line has been low in the press in progress
  pressShots,  \* takePhoto() calls made during the press in progress
  pressInPoll, \* the press in progress began while loop() was polling
  sinceShot,   \* time since takePhoto() was last called, up to DEBOUNCE_MS
  bounced,     \* the line changed level during the last tail delay
  holdRun,     \* TRUE in a stuck-control run
  sdOk,        \* the card is mounted and /camera exists
  led          \* state last signalled by ledOn() / ledOff()

vars == <<ms, up, base, edgeUp, btn, last, edge, now, t0, dly, pc, fb, fbOut, idx, byClock, existed, clockIdx, fState,
          wrOk, flOk, ops, out, files, usedIdx, wdt, timedOut, faults,
          pressLen, pressShots, pressInPoll, sinceShot, bounced, holdRun, sdOk, led>>

loopVars == <<last, edge, edgeUp, now, t0, dly>>

callVars == <<fb, fbOut, idx, byClock, existed, fState, wrOk, flOk, ops, out>>

envVars == <<ms, up, btn, pressLen>>

\* ------------------------------------------------------------------------
\* Arithmetic
\* ------------------------------------------------------------------------
\* variant: the difference is taken without wrap-around, as in a wider
\* signed type
Sub32_Signed(a, b) == a - b

\* a - b on uint32_t
Sub32(a, b) == (a - b + U32) % U32

\* uint32_t converted to int
ToInt32(u) == IF u >= U32 \div 2 THEN u - U32 ELSE u

\* ------------------------------------------------------------------------
\* Environment: the clock and the button line
\* ------------------------------------------------------------------------
\* instants, counted from the beginning of the run, at which the line may
\* change level
ToggleTimes ==
  IF holdRun THEN (1 .. HoldWindow) \cup {ReleaseAt, RepressAt} ELSE 1 .. MaxTime

Horizon == IF holdRun THEN HoldTime ELSE MaxTime

\* time since the beginning of the run
Elapsed == up - base

\* n milliseconds pass with the line at its current level; at the end of
\* the interval the line keeps its level or changes it
Elapse(n) ==
  /\ Elapsed + n <= Horizon
  /\ ms' = (ms + n) % U32
  /\ up' = up + n
  /\ \E lvl \in BOOLEAN :
       /\ lvl # btn => \E t \in ToggleTimes : Elapsed < t /\ t <= Elapsed + n
       /\ btn' = lvl
       /\ pressLen' = IF lvl = HIGH THEN 0
                      ELSE IF btn = LOW THEN pressLen + n ELSE 0
       /\ pressShots' = IF lvl = LOW /\ btn = LOW THEN pressShots ELSE 0
       /\ pressInPoll' = IF lvl = HIGH THEN FALSE
                         ELSE IF btn = LOW THEN pressInPoll ELSE pc = "poll"
       /\ bounced' = (bounced \/ (pc = "tail" /\ lvl # btn))
  /\ sinceShot' = IF sinceShot + n < DEBOUNCE_MS THEN sinceShot + n ELSE DEBOUNCE_MS

NoElapse == UNCHANGED envVars

\* ------------------------------------------------------------------------
\* Storage capability
\* ------------------------------------------------------------------------
\* readFileNum(SD_MMC, "/camera"): the number of entries, or -1; without a
\* mounted card or without the directory the count always fails
readFileNum(dir) ==
  IF sdOk THEN {Cardinality(dir)} \cup (IF faults < MaxFaults THEN {-1} ELSE {})
  ELSE {-1}

\* SD_MMC.open(path, FILE_WRITE) can fail: always without a mounted card or
\* without the directory, otherwise as an injected fault
OpenCanFail == ~sdOk \/ faults < MaxFaults

\* sdmmcInit(): whether the card was mounted
sdmmcInit == IF faults < MaxFaults THEN BOOLEAN ELSE {TRUE}

\* createDir(SD_MMC, "/camera"): whether the directory exists afterwards
createDir(mounted) == IF mounted THEN BOOLEAN ELSE {FALSE}

\* ------------------------------------------------------------------------
\* Indicator
\* ------------------------------------------------------------------------
\* state signalled by ledOn()
ledOn == "busy"

\* state signalled by ledOff() and by ledSetup()
ledOff == "idle"

\* level of the indicator line: driven low for busy, high for idle, and not
\* driven at all when LED_PIN is negative
LedLevel == IF LED_PIN >= 0 THEN (IF led = ledOn THEN "low" ELSE "high") ELSE "undriven"

\* int idx = readFileNum(...); if (idx < 0) idx = millis();
FileIndex(n, t) == IF n < 0 THEN ToInt32(t) ELSE n

\* ------------------------------------------------------------------------
\* loop(): predicates
\* ------------------------------------------------------------------------
\* variant: the falling edge is tested against the wrong level of last
FallingEdge_Missed(l, n) == l = LOW /\ n = HIGH

FallingEdge(l, n) == l = HIGH /\ n = LOW

Debounced(t, e) == Sub32(t, e) > DEBOUNCE_MS

Activation(l, n, t, e) == l = LOW /\ n = LOW /\ Debounced(t, e)

\* variant: the operands of the subtraction are exchanged
ReleaseTimedOut_Swapped(t, start) == Sub32(start, t) > RELEASE_TIMEOUT

ReleaseTimedOut(t, start) == Sub32(t, start) > RELEASE_TIMEOUT

\* ------------------------------------------------------------------------
\* Initial state: power-up, setup() has not run yet
\* ------------------------------------------------------------------------
InitWith(dirs, kinds) ==
  /\ ms = 0
  /\ up = 0
  /\ base = 0
  /\ edgeUp = 0
  /\ btn = HIGH
  /\ last = HIGH
  /\ edge = 0
  /\ now = HIGH
  /\ t0 = 0
  /\ dly = 0
  /\ pc = "setup"
  /\ fb = FALSE
  /\ fbOut = 0
  /\ idx = 0
  /\ byClock = FALSE
  /\ existed = FALSE
  /\ clockIdx = {}
  /\ fState = "none"
  /\ wrOk = TRUE
  /\ flOk = TRUE
  /\ ops = <<>>
  /\ out = ""
  /\ files \in dirs
  /\ usedIdx = {}
  /\ wdt = 0
  /\ timedOut = FALSE
  /\ faults = 0
  /\ pressLen = 0
  /\ pressShots = 0
  /\ pressInPoll = FALSE
  /\ sinceShot = DEBOUNCE_MS
  /\ bounced = FALSE
  /\ holdRun \in kinds
  /\ sdOk = FALSE
  /\ led = ledOff

\* the card is empty or holds one leftover file; free and stuck-control runs
Init == InitWith({{}} \cup {{n} : n \in 1 .. MaxInitIdx}, BOOLEAN)

\* the same, stuck-control runs only
InitHold == InitWith({{}} \cup {{n} : n \in 1 .. MaxInitIdx}, {TRUE})

\* a used card, stuck-control runs
InitCard == InitWith({0 .. CardFiles - 1}, {TRUE})

\* ------------------------------------------------------------------------
\* setup()
\* ------------------------------------------------------------------------
\* ledSetup(); ledOn(); sdmmcInit(); createDir(SD_MMC, "/camera"): the mount
\* and the directory creation succeed or fail, setup() does not look
Setup_Storage ==
  /\ pc = "setup"
  /\ led' = ledOn
  /\ \E mounted \in sdmmcInit : \E made \in createDir(mounted) :
       /\ sdOk' = (mounted /\ made)
       /\ faults' = IF mounted /\ made THEN faults ELSE faults + 1
  /\ pc' = "setup_cam"
  /\ NoElapse
  /\ UNCHANGED loopVars
  /\ UNCHANGED callVars
  /\ UNCHANGED <<files, usedIdx, wdt, timedOut, pressShots, holdRun>>
  /\ UNCHANGED <<base>>
  /\ UNCHANGED <<pressInPoll, sinceShot>>
  /\ UNCHANGED <<clockIdx>>
  /\ UNCHANGED <<bounced>>

\* cameraSetup() returns true: ledOff(), "Setup done", loop() starts
Setup_CameraOk ==
  /\ pc = "setup_cam"
  /\ led' = ledOff
  /\ pc' = "poll"
  /\ NoElapse
  /\ UNCHANGED loopVars
  /\ UNCHANGED callVars
  /\ UNCHANGED <<files, usedIdx, wdt, timedOut, faults, pressShots, holdRun, sdOk>>
  /\ UNCHANGED <<sdOk>>
  /\ UNCHANGED <<base>>
  /\ UNCHANGED <<pressInPoll, sinceShot>>
  /\ UNCHANGED <<clockIdx>>
  /\ UNCHANGED <<bounced>>

\* cameraSetup() returns false: "Camera init FAILED", the halt loop is entered
Setup_CameraFail ==
  /\ pc = "setup_cam"
  /\ pc' = "halt"
  /\ NoElapse
  /\ UNCHANGED loopVars
  /\ UNCHANGED callVars
  /\ UNCHANGED <<files, usedIdx, wdt, timedOut, faults, pressShots, holdRun, sdOk, led>>
  /\ UNCHANGED <<sdOk, led>>
  /\ UNCHANGED <<base>>
  /\ UNCHANGED <<pressInPoll, sinceShot>>
  /\ UNCHANGED <<clockIdx>>
  /\ UNCHANGED <<bounced>>

\* while (true) { ledOn(); delay(100); ledOff(); delay(100); }: one half
Halt_Blink ==
  /\ pc = "halt"
  /\ led' = IF led = ledOn THEN ledOff ELSE ledOn
  /\ Elapse(BLINK_MS)
  /\ UNCHANGED loopVars
  /\ UNCHANGED callVars
  /\ UNCHANGED <<pc, files, usedIdx, wdt, timedOut, faults, holdRun, sdOk>>
  /\ UNCHANGED <<sdOk>>
  /\ UNCHANGED <<base>>
  /\ UNCHANGED <<clockIdx>>

\* ------------------------------------------------------------------------
\* loop()
\* ------------------------------------------------------------------------
\* a long time passes with the button released: iterations of loop() that
\* read HIGH change nothing but the clock
Idle_Long ==
  /\ pc = "poll"
  /\ holdRun
  /\ up = 0
  /\ btn = HIGH
  /\ last = HIGH
  /\ ms' = U32 - WrapLead
  /\ up' = U32 - WrapLead
  /\ base' = U32 - WrapLead
  /\ now' = btn
  /\ UNCHANGED <<btn, pressLen, pressShots, last, edge, edgeUp, t0, dly, pc>>
  /\ UNCHANGED callVars
  /\ UNCHANGED <<files, usedIdx, wdt, timedOut, faults, holdRun, sdOk, led>>
  /\ UNCHANGED <<pressInPoll, sinceShot>>
  /\ UNCHANGED <<clockIdx>>
  /\ UNCHANGED <<bounced>>

\* one iteration of loop() in which the debounce test does not hold
Loop_Idle ==
  /\ pc = "poll"
  /\ ~Activation(last, btn, ms, edge)
  /\ now' = btn
  /\ edge' = IF FallingEdge(last, btn) THEN ms ELSE edge
  /\ edgeUp' = IF FallingEdge(last, btn) THEN up ELSE edgeUp
  /\ last' = btn
  /\ Elapse(1)
  /\ UNCHANGED <<t0, dly, pc, wdt, timedOut, faults, files, usedIdx, holdRun>>
  /\ UNCHANGED callVars
  /\ UNCHANGED <<sdOk, led>>
  /\ UNCHANGED <<base>>
  /\ UNCHANGED <<clockIdx>>

\* the debounce test holds: loop() calls takePhoto()
Loop_Shot ==
  /\ pc = "poll"
  /\ Activation(last, btn, ms, edge)
  /\ now' = btn
  /\ edge' = IF FallingEdge(last, btn) THEN ms ELSE edge
  /\ edgeUp' = IF FallingEdge(last, btn) THEN up ELSE edgeUp
  /\ pc' = "takePhoto"
  /\ pressShots' = pressShots + 1
  /\ sinceShot' = 0
  /\ bounced' = FALSE
  /\ NoElapse
  /\ UNCHANGED <<last, t0, dly, wdt, timedOut, faults, files, usedIdx, holdRun>>
  /\ UNCHANGED callVars
  /\ UNCHANGED <<sdOk, led>>
  /\ UNCHANGED <<base>>
  /\ UNCHANGED <<pressInPoll>>
  /\ UNCHANGED <<clockIdx>>

\* takePhoto() has returned: uint32_t t0 = millis()
Loop_WaitStart ==
  /\ pc = "tp_ret"
  /\ t0' = ms
  /\ usedIdx' = IF out = "Saved" /\ wrOk /\ flOk THEN usedIdx \cup {idx} ELSE usedIdx
  /\ clockIdx' = IF byClock THEN clockIdx \cup {idx} ELSE clockIdx
  /\ fb' = FALSE
  /\ idx' = 0
  /\ byClock' = FALSE
  /\ existed' = FALSE
  /\ fState' = "none"
  /\ wrOk' = TRUE
  /\ flOk' = TRUE
  /\ ops' = <<>>
  /\ out' = ""
  /\ pc' = "wait"
  /\ NoElapse
  /\ UNCHANGED <<last, edge, edgeUp, now, dly, fbOut, files, wdt, timedOut, faults, pressShots, holdRun>>
  /\ UNCHANGED <<sdOk, led>>
  /\ UNCHANGED <<base>>
  /\ UNCHANGED <<pressInPoll, sinceShot>>
  /\ UNCHANGED <<bounced>>

\* while (digitalRead(BUTTON_PIN) == LOW) is false: the button is released
Wait_Released ==
  /\ pc = "wait"
  /\ btn = HIGH
  /\ pc' = "tail"
  /\ dly' = DEBOUNCE_MS
  /\ t0' = 0
  /\ wdt' = 0
  /\ NoElapse
  /\ UNCHANGED <<last, edge, edgeUp, now, timedOut, faults, files, usedIdx, pressShots, holdRun>>
  /\ UNCHANGED callVars
  /\ UNCHANGED <<sdOk, led>>
  /\ UNCHANGED <<base>>
  /\ UNCHANGED <<pressInPoll, sinceShot>>
  /\ UNCHANGED <<clockIdx>>
  /\ UNCHANGED <<bounced>>

\* button still low: watchdog reset, the timeout has passed, break
Wait_Timeout ==
  /\ pc = "wait"
  /\ btn = LOW
  /\ ReleaseTimedOut(ms, t0)
  /\ timedOut' = TRUE
  /\ pc' = "tail"
  /\ dly' = DEBOUNCE_MS
  /\ t0' = 0
  /\ wdt' = 0
  /\ NoElapse
  /\ UNCHANGED <<last, edge, edgeUp, now, faults, files, usedIdx, pressShots, holdRun>>
  /\ UNCHANGED callVars
  /\ UNCHANGED <<sdOk, led>>
  /\ UNCHANGED <<base>>
  /\ UNCHANGED <<pressInPoll, sinceShot>>
  /\ UNCHANGED <<clockIdx>>
  /\ UNCHANGED <<bounced>>

\* button still low: watchdog reset, no timeout yet, delay(5)
Wait_Delay ==
  /\ pc = "wait"
  /\ btn = LOW
  /\ wdt' = wdt + 1
  /\ ~ReleaseTimedOut(ms, t0)
  /\ Elapse(RELEASE_POLL)
  /\ UNCHANGED <<last, edge, edgeUp, now, t0, dly, pc, timedOut, faults, files, usedIdx, holdRun>>
  /\ UNCHANGED callVars
  /\ UNCHANGED <<sdOk, led>>
  /\ UNCHANGED <<base>>
  /\ UNCHANGED <<clockIdx>>

\* one millisecond of delay(DEBOUNCE_MS)
Tail_Tick ==
  /\ pc = "tail"
  /\ dly > 0
  /\ dly' = dly - 1
  /\ Elapse(1)
  /\ UNCHANGED <<last, edge, edgeUp, now, t0, pc, wdt, timedOut, faults, files, usedIdx, holdRun>>
  /\ UNCHANGED callVars
  /\ UNCHANGED <<sdOk, led>>
  /\ UNCHANGED <<base>>
  /\ UNCHANGED <<clockIdx>>

\* delay(DEBOUNCE_MS) is over: last = now, loop() returns
Loop_End ==
  /\ pc = "tail"
  /\ dly = 0
  /\ last' = now
  /\ timedOut' = FALSE
  /\ pc' = "poll"
  /\ NoElapse
  /\ UNCHANGED <<edge, edgeUp, now, t0, dly, wdt, faults, files, usedIdx, pressShots, holdRun>>
  /\ UNCHANGED callVars
  /\ UNCHANGED <<sdOk, led>>
  /\ UNCHANGED <<base>>
  /\ UNCHANGED <<pressInPoll, sinceShot>>
  /\ UNCHANGED <<clockIdx>>
  /\ UNCHANGED <<bounced>>

\* ------------------------------------------------------------------------
\* takePhoto()
\* ------------------------------------------------------------------------
\* ledOn()
TP_LedOn ==
  /\ pc = "takePhoto"
  /\ led' = ledOn
  /\ ops' = <<"ledOn">>
  /\ pc' = "tp_get"
  /\ NoElapse
  /\ UNCHANGED loopVars
  /\ UNCHANGED <<fb, fbOut, idx, fState, wrOk, flOk, out, files, usedIdx, wdt, timedOut, faults, pressShots, holdRun>>
  /\ UNCHANGED <<sdOk>>
  /\ UNCHANGED <<base>>
  /\ UNCHANGED <<pressInPoll, sinceShot>>
  /\ UNCHANGED <<byClock, clockIdx>>
  /\ UNCHANGED <<existed>>
  /\ UNCHANGED <<bounced>>

\* esp_camera_fb_get() returns a frame
TP_GetOk ==
  /\ pc = "tp_get"
  /\ ops' = Append(ops, "fb_get")
  /\ fb' = TRUE
  /\ fbOut' = fbOut + 1
  /\ pc' = "tp_name"
  /\ Elapse(1)
  /\ UNCHANGED loopVars
  /\ UNCHANGED <<idx, fState, wrOk, flOk, out, files, usedIdx, wdt, timedOut, faults, holdRun>>
  /\ UNCHANGED <<sdOk, led>>
  /\ UNCHANGED <<base>>
  /\ UNCHANGED <<byClock, clockIdx>>
  /\ UNCHANGED <<existed>>

\* variant: the return after "Capture failed" is missing
TP_GetNull_FallThrough ==
  /\ pc = "tp_get"
  /\ faults < MaxFaults
  /\ faults' = faults + 1
  /\ ops' = ops \o <<"fb_get", "ledOff">>
  /\ led' = ledOff
  /\ fb' = FALSE
  /\ out' = "Capture failed"
  /\ pc' = "tp_name"
  /\ Elapse(1)
  /\ UNCHANGED loopVars
  /\ UNCHANGED <<fbOut, idx, fState, wrOk, flOk, files, usedIdx, wdt, timedOut, holdRun>>
  /\ UNCHANGED <<sdOk>>
  /\ UNCHANGED <<base>>
  /\ UNCHANGED <<byClock, clockIdx>>
  /\ UNCHANGED <<existed>>

\* variant: ledOff() is missing on the "Capture failed" exit
TP_GetNull_LedStaysOn ==
  /\ pc = "tp_get"
  /\ faults < MaxFaults
  /\ faults' = faults + 1
  /\ ops' = Append(ops, "fb_get")
  /\ fb' = FALSE
  /\ out' = "Capture failed"
  /\ pc' = "tp_ret"
  /\ Elapse(1)
  /\ UNCHANGED loopVars
  /\ UNCHANGED <<fbOut, idx, fState, wrOk, flOk, files, usedIdx, wdt, timedOut, holdRun>>
  /\ UNCHANGED <<sdOk, led, base>>
  /\ UNCHANGED <<byClock, clockIdx>>
  /\ UNCHANGED <<existed>>

\* esp_camera_fb_get() returns NULL: "Capture failed", ledOff(), return
TP_GetNull ==
  /\ pc = "tp_get"
  /\ faults < MaxFaults
  /\ faults' = faults + 1
  /\ ops' = ops \o <<"fb_get", "ledOff">>
  /\ led' = ledOff
  /\ fb' = FALSE
  /\ out' = "Capture failed"
  /\ pc' = "tp_ret"
  /\ Elapse(1)
  /\ UNCHANGED loopVars
  /\ UNCHANGED <<fbOut, idx, fState, wrOk, flOk, files, usedIdx, wdt, timedOut, holdRun>>
  /\ UNCHANGED <<sdOk>>
  /\ UNCHANGED <<base>>
  /\ UNCHANGED <<byClock, clockIdx>>
  /\ UNCHANGED <<existed>>

\* idx = readFileNum(...), or millis() when the count fails
TP_Name ==
  /\ pc = "tp_name"
  /\ \E n \in readFileNum(files) :
       /\ idx' = FileIndex(n, ms)
       /\ byClock' = (n < 0)
       /\ faults' = IF n < 0 /\ sdOk THEN faults + 1 ELSE faults
  /\ ops' = Append(ops, "readFileNum")
  /\ pc' = "tp_open"
  /\ NoElapse
  /\ UNCHANGED loopVars
  /\ UNCHANGED <<fb, fbOut, fState, wrOk, flOk, out, files, usedIdx, wdt, timedOut, pressShots, holdRun>>
  /\ UNCHANGED <<sdOk, led>>
  /\ UNCHANGED <<base>>
  /\ UNCHANGED <<pressInPoll, sinceShot>>
  /\ UNCHANGED <<clockIdx>>
  /\ UNCHANGED <<existed>>
  /\ UNCHANGED <<bounced>>

\* variant: the frame is given back as soon as the file is open
TP_OpenOk_ReleasesEarly ==
  /\ pc = "tp_open"
  /\ sdOk
  /\ fState' = "open"
  /\ files' = files \cup {idx}
  /\ existed' = (idx \in files)
  /\ ops' = ops \o <<"open", "fb_return">>
  /\ fbOut' = fbOut - 1
  /\ pc' = "tp_write"
  /\ NoElapse
  /\ UNCHANGED loopVars
  /\ UNCHANGED <<fb, idx, wrOk, flOk, out, usedIdx, wdt, timedOut, faults, pressShots, holdRun>>
  /\ UNCHANGED <<sdOk, led, base, pressInPoll, sinceShot, byClock, clockIdx>>
  /\ UNCHANGED <<bounced>>

\* SD_MMC.open(path, FILE_WRITE) succeeds: the file is created or truncated
TP_OpenOk ==
  /\ pc = "tp_open"
  /\ sdOk
  /\ fState' = "open"
  /\ files' = files \cup {idx}
  /\ existed' = (idx \in files)
  /\ ops' = Append(ops, "open")
  /\ pc' = "tp_write"
  /\ NoElapse
  /\ UNCHANGED loopVars
  /\ UNCHANGED <<fb, fbOut, idx, wrOk, flOk, out, usedIdx, wdt, timedOut, faults, pressShots, holdRun>>
  /\ UNCHANGED <<sdOk, led>>
  /\ UNCHANGED <<base>>
  /\ UNCHANGED <<pressInPoll, sinceShot>>
  /\ UNCHANGED <<byClock, clockIdx>>
  /\ UNCHANGED <<bounced>>

\* variant: the frame is not given back when the open fails
TP_OpenFail_Leak ==
  /\ pc = "tp_open"
  /\ OpenCanFail
  /\ faults' = IF sdOk THEN faults + 1 ELSE faults
  /\ fState' = "invalid"
  /\ ops' = ops \o <<"open", "ledOff">>
  /\ led' = ledOff
  /\ out' = "File open failed"
  /\ pc' = "tp_ret"
  /\ NoElapse
  /\ UNCHANGED loopVars
  /\ UNCHANGED <<fb, fbOut, idx, wrOk, flOk, files, usedIdx, wdt, timedOut, pressShots, holdRun>>
  /\ UNCHANGED <<sdOk>>
  /\ UNCHANGED <<base>>
  /\ UNCHANGED <<pressInPoll, sinceShot>>
  /\ UNCHANGED <<byClock, clockIdx>>
  /\ UNCHANGED <<existed>>
  /\ UNCHANGED <<bounced>>

\* variant: the failed open is reported but takePhoto() goes on to write
TP_OpenFail_GoesOn ==
  /\ pc = "tp_open"
  /\ OpenCanFail
  /\ faults' = IF sdOk THEN faults + 1 ELSE faults
  /\ fState' = "invalid"
  /\ ops' = Append(ops, "open")
  /\ out' = "File open failed"
  /\ pc' = "tp_write"
  /\ NoElapse
  /\ UNCHANGED loopVars
  /\ UNCHANGED <<fb, fbOut, idx, wrOk, flOk, files, usedIdx, wdt, timedOut, pressShots, holdRun>>
  /\ UNCHANGED <<sdOk, led>>
  /\ UNCHANGED <<base>>
  /\ UNCHANGED <<pressInPoll, sinceShot>>
  /\ UNCHANGED <<byClock, clockIdx>>
  /\ UNCHANGED <<existed>>
  /\ UNCHANGED <<bounced>>

\* variant: after a failed open takePhoto() starts over
TP_OpenFail_Retries ==
  /\ pc = "tp_open"
  /\ OpenCanFail
  /\ faults' = IF sdOk THEN faults + 1 ELSE faults
  /\ fState' = "invalid"
  /\ ops' = ops \o <<"open", "fb_return", "ledOff">>
  /\ led' = ledOff
  /\ fbOut' = fbOut - 1
  /\ out' = "File open failed"
  /\ pc' = "takePhoto"
  /\ NoElapse
  /\ UNCHANGED loopVars
  /\ UNCHANGED <<fb, idx, wrOk, flOk, files, usedIdx, wdt, timedOut, pressShots, holdRun>>
  /\ UNCHANGED <<sdOk>>
  /\ UNCHANGED <<base>>
  /\ UNCHANGED <<pressInPoll, sinceShot>>
  /\ UNCHANGED <<byClock, clockIdx>>
  /\ UNCHANGED <<existed>>
  /\ UNCHANGED <<bounced>>

\* open fails: "File open failed", esp_camera_fb_return(fb), ledOff(), return
TP_OpenFail ==
  /\ pc = "tp_open"
  /\ OpenCanFail
  /\ faults' = IF sdOk THEN faults + 1 ELSE faults
  /\ fState' = "invalid"
  /\ ops' = ops \o <<"open", "fb_return", "ledOff">>
  /\ led' = ledOff
  /\ fbOut' = fbOut - 1
  /\ out' = "File open failed"
  /\ pc' = "tp_ret"
  /\ NoElapse
  /\ UNCHANGED loopVars
  /\ UNCHANGED <<fb, idx, wrOk, flOk, files, usedIdx, wdt, timedOut, pressShots, holdRun>>
  /\ UNCHANGED <<sdOk>>
  /\ UNCHANGED <<base>>
  /\ UNCHANGED <<pressInPoll, sinceShot>>
  /\ UNCHANGED <<byClock, clockIdx>>
  /\ UNCHANGED <<existed>>
  /\ UNCHANGED <<bounced>>

\* variant: f.flush() left out, f.write is followed by f.close()
AfterWrite_NoFlush == "tp_close"

\* the statement that follows f.write in takePhoto()
AfterWrite == "tp_flush"

\* f.write(fb->buf, fb->len); its result is not looked at
TP_Write ==
  /\ pc = "tp_write"
  /\ \E ok \in BOOLEAN :
       /\ ~ok => faults < MaxFaults
       /\ wrOk' = ok
       /\ faults' = IF ok THEN faults ELSE faults + 1
  /\ ops' = Append(ops, "write")
  /\ pc' = AfterWrite
  /\ Elapse(1)
  /\ UNCHANGED loopVars
  /\ UNCHANGED <<fb, fbOut, idx, fState, flOk, out, files, usedIdx, wdt, timedOut, holdRun>>
  /\ UNCHANGED <<sdOk, led>>
  /\ UNCHANGED <<base>>
  /\ UNCHANGED <<byClock, clockIdx>>
  /\ UNCHANGED <<existed>>

\* f.flush(); its result is not looked at
TP_Flush ==
  /\ pc = "tp_flush"
  /\ \E ok \in BOOLEAN :
       /\ ~ok => faults < MaxFaults
       /\ flOk' = ok
       /\ faults' = IF ok THEN faults ELSE faults + 1
  /\ ops' = Append(ops, "flush")
  /\ pc' = "tp_close"
  /\ NoElapse
  /\ UNCHANGED loopVars
  /\ UNCHANGED <<fb, fbOut, idx, fState, wrOk, out, files, usedIdx, wdt, timedOut, pressShots, holdRun>>
  /\ UNCHANGED <<sdOk, led>>
  /\ UNCHANGED <<base>>
  /\ UNCHANGED <<pressInPoll, sinceShot>>
  /\ UNCHANGED <<byClock, clockIdx>>
  /\ UNCHANGED <<existed>>
  /\ UNCHANGED <<bounced>>

\* f.close()
TP_Close ==
  /\ pc = "tp_close"
  /\ fState' = "closed"
  /\ ops' = Append(ops, "close")
  /\ pc' = "tp_return"
  /\ NoElapse
  /\ UNCHANGED loopVars
  /\ UNCHANGED <<fb, fbOut, idx, wrOk, flOk, out, files, usedIdx, wdt, timedOut, faults, pressShots, holdRun>>
  /\ UNCHANGED <<sdOk, led>>
  /\ UNCHANGED <<base>>
  /\ UNCHANGED <<pressInPoll, sinceShot>>
  /\ UNCHANGED <<byClock, clockIdx>>
  /\ UNCHANGED <<existed>>
  /\ UNCHANGED <<bounced>>

\* variant: the frame is not given back after a saved capture
TP_Return_NoRelease ==
  /\ pc = "tp_return"
  /\ ops' = Append(ops, "ledOff")
  /\ led' = ledOff
  /\ out' = "Saved"
  /\ pc' = "tp_ret"
  /\ NoElapse
  /\ UNCHANGED loopVars
  /\ UNCHANGED <<fb, fbOut, idx, fState, wrOk, flOk, files, usedIdx, wdt, timedOut, faults, pressShots, holdRun>>
  /\ UNCHANGED <<sdOk, base, pressInPoll, sinceShot>>
  /\ UNCHANGED <<byClock, clockIdx>>
  /\ UNCHANGED <<existed>>
  /\ UNCHANGED <<bounced>>

\* esp_camera_fb_return(fb); "Saved: <path>"; ledOff()
TP_Return ==
  /\ pc = "tp_return"
  /\ fbOut' = fbOut - 1
  /\ ops' = ops \o <<"fb_return", "ledOff">>
  /\ led' = ledOff
  /\ out' = "Saved"
  /\ pc' = "tp_ret"
  /\ NoElapse
  /\ UNCHANGED loopVars
  /\ UNCHANGED <<fb, idx, fState, wrOk, flOk, files, usedIdx, wdt, timedOut, faults, pressShots, holdRun>>
  /\ UNCHANGED <<sdOk>>
  /\ UNCHANGED <<base>>
  /\ UNCHANGED <<pressInPoll, sinceShot>>
  /\ UNCHANGED <<byClock, clockIdx>>
  /\ UNCHANGED <<existed>>
  /\ UNCHANGED <<bounced>>

\* ------------------------------------------------------------------------
\* Specifications
\* ------------------------------------------------------------------------
Next ==
  \/ Setup_Storage
  \/ Setup_CameraOk
  \/ Setup_CameraFail
  \/ Halt_Blink
  \/ Idle_Long
  \/ Loop_Idle
  \/ Loop_Shot
  \/ Loop_WaitStart
  \/ Wait_Released
  \/ Wait_Timeout
  \/ Wait_Delay
  \/ Tail_Tick
  \/ Loop_End
  \/ TP_LedOn
  \/ TP_GetOk
  \/ TP_GetNull
  \/ TP_Name
  \/ TP_OpenOk
  \/ TP_OpenFail
  \/ TP_Write
  \/ TP_Flush
  \/ TP_Close
  \/ TP_Return

Spec == Init /\ [][Next]_vars

\* the processor never stops executing the sketch; progress is followed on
\* the stuck-control runs, which reach past the timeout of the wait
FairSpec == InitHold /\ [][Next]_vars /\ WF_vars(Next)

\* runs that start with a used card
CardSpec == InitCard /\ [][Next]_vars

\* ------------------------------------------------------------------------
\* Properties
\* ------------------------------------------------------------------------
OpsAt(op) == {i \in DOMAIN ops : ops[i] = op}

Calls(op) == Cardinality(OpsAt(op))

\* the line is released at the end of this step
Released == btn = LOW /\ btn' = HIGH

\* duration of the press that ends in this step
FinalLen == pressLen + Sub32(ms', ms)

\* C1: when the open succeeded, takePhoto() performs write, then flush, then
\* close: a close is always preceded by a flush, the flush by the write, and
\* the file is closed when takePhoto() returns, also when the write or the
\* flush failed.
C1_WriteFlushClose ==
  /\ \A c \in OpsAt("close") :
       \E f \in OpsAt("flush") : f < c /\ \E w \in OpsAt("write") : w < f
  /\ (pc = "tp_ret" /\ fState \in {"open", "closed"}) =>
       /\ fState = "closed"
       /\ Calls("write") = 1
       /\ Calls("flush") = 1
       /\ Calls("close") = 1

C1_FlushFailedStillClosed == pc = "tp_ret" /\ fState = "closed" /\ ~flOk

\* C2: a frame obtained from esp_camera_fb_get() is given back exactly once
\* before takePhoto() returns, on every exit path; when no frame was obtained
\* nothing is given back.
C2_FrameReturnedOnce ==
  /\ Calls("fb_return") <= (IF fb THEN 1 ELSE 0)
  /\ fbOut = (IF fb /\ Calls("fb_return") = 0 THEN 1 ELSE 0)
  /\ pc = "tp_ret" => Calls("fb_return") = (IF fb THEN 1 ELSE 0)

C2_OpenFailedFrameReturned ==
  pc = "tp_ret" /\ fb /\ fState = "invalid" /\ Calls("fb_return") = 1

\* C3: one physical press causes at most one capture: takePhoto() is not
\* called again while the line stays low, however long it is held.
C3_OneShotPerPress ==
  [][(pc = "poll" /\ pc' = "takePhoto") => pressShots = 0]_vars

\* C4: a press that lasts less than DEBOUNCE_MS never causes a takePhoto()
\* call, wherever in a sequence of presses it occurs.
C4_ShortPressNoShot ==
  [][(Released /\ FinalLen < DEBOUNCE_MS) => pressShots = 0]_vars

\* C5: a press that lasts DEBOUNCE_MS or longer (exactly DEBOUNCE_MS
\* included) causes exactly one takePhoto() call, however often it is
\* sampled while held.
C5_ExactlyOneShot ==
  /\ [](pressShots <= 1)
  /\ [][(Released /\ FinalLen >= DEBOUNCE_MS) => pressShots = 1]_vars

\* C6: the file indices of the captures saved in one session are pairwise
\* distinct, whatever the directory held at power-up.
C6_DistinctIndices ==
  (pc = "tp_ret" /\ out = "Saved" /\ wrOk /\ flOk) => idx \notin usedIdx

\* C7: when the write or the flush fails after a successful open,
\* takePhoto() does not report the file as saved, and still closes the file
\* and gives the frame back.
C7_WriteFaultReported ==
  (pc = "tp_ret" /\ fState = "closed" /\ (~wrOk \/ ~flOk)) =>
    /\ out # "Saved"
    /\ Calls("close") = 1
    /\ Calls("fb_return") = 1

\* C8: when esp_camera_fb_get() returns no frame, takePhoto() reports the
\* capture failure and does nothing else: no directory count, no open,
\* write, flush or close, no file and no frame release.
C8_NoFrameNoAction ==
  /\ pc \in {"tp_name", "tp_open", "tp_write", "tp_flush", "tp_close", "tp_return"} => fb
  /\ (pc = "tp_ret" /\ ~fb) =>
       /\ out = "Capture failed"
       /\ ops = <<"ledOn", "fb_get", "ledOff">>
       /\ fState = "none"
       /\ fbOut = 0

C8_CaptureFailed == pc = "tp_ret" /\ ~fb /\ out = "Capture failed"

\* C9: when the open fails after a frame was obtained, takePhoto() reports
\* the open failure, gives the frame back, and performs no write, flush or
\* close and reports nothing as saved.
C9_OpenFailStops ==
  /\ pc \in {"tp_write", "tp_flush", "tp_close", "tp_return"} => fState # "invalid"
  /\ (pc = "tp_ret" /\ fState = "invalid") =>
       /\ out = "File open failed"
       /\ ops = <<"ledOn", "fb_get", "readFileNum", "open", "fb_return", "ledOff">>
       /\ fbOut = 0

C9_OpenFailed == pc = "tp_ret" /\ fState = "invalid" /\ out = "File open failed"

\* C10: the wait for release always ends: with the line stuck low it is left
\* through the timeout, only once more than RELEASE_TIMEOUT ms have passed
\* since it began and no later than one delay after that, and polling
\* resumes; the watchdog is reset once per iteration, RELEASE_POLL ms apart.
C10_WaitEnds ==
  /\ [](pc = "wait" =>
          /\ Sub32(ms, t0) <= RELEASE_TIMEOUT + RELEASE_POLL
          /\ wdt * RELEASE_POLL = Sub32(ms, t0))
  /\ [][(pc = "wait" /\ pc' = "tail" /\ btn = LOW) =>
          Sub32(ms, t0) > RELEASE_TIMEOUT]_vars
  /\ (pc = "wait" /\ Elapsed + RELEASE_TIMEOUT + RELEASE_POLL + DEBOUNCE_MS <= Horizon)
       ~> (pc = "poll")

C10_TimedOutStillLow == pc = "tail" /\ timedOut /\ btn = LOW

\* C11: a failed start-up step (mount of the card, creation of /camera,
\* camera initialisation) ends in the halt loop for good: the halt loop is
\* never left, and loop() and takePhoto() run only when the card is mounted
\* and the directory exists.
C11_InitFaultHalts ==
  /\ [](pc \notin {"setup", "setup_cam", "halt"} => sdOk)
  /\ [][pc = "halt" => pc' = "halt"]_vars

\* takePhoto() has ended with a sensor fault or a storage fault
Faulted == pc = "tp_ret" /\ (out # "Saved" \/ ~wrOk \/ ~flOk)

\* time left for the wait for release and the tail delay
RoomToRearm ==
  \/ btn = HIGH /\ Elapsed + DEBOUNCE_MS <= Horizon
  \/ Elapsed + RELEASE_TIMEOUT + RELEASE_POLL + DEBOUNCE_MS <= Horizon

\* C12: a fault of one capture is not fatal and is not carried over: after
\* takePhoto() ended with a fault the sketch comes back to polling; from then
\* on a press seen by the poll loop and held longer than DEBOUNCE_MS calls
\* takePhoto() again; and takePhoto() is only ever called from the poll loop
\* with the line low, never as a retry by the fault itself.
C12_FaultNotFatal ==
  /\ (Faulted /\ RoomToRearm) ~> (pc = "poll")
  /\ [](faults > 0 /\ pc = "poll" /\ btn = LOW /\ pressLen > DEBOUNCE_MS
          => Activation(last, btn, ms, edge))
  /\ (faults > 0 /\ pc = "poll" /\ btn = LOW /\ pressLen > DEBOUNCE_MS)
       ~> (pc = "takePhoto")
  /\ [][pc' = "takePhoto" => (pc = "poll" /\ btn = LOW)]_vars

\* a capture has failed earlier and a press has called takePhoto() again
C12_ShotAfterFault ==
  pc = "takePhoto" /\ faults > 0 /\ sdOk /\ pressInPoll /\ pressLen > DEBOUNCE_MS

\* C13: at most one frame is outstanding (obtained and not yet given back)
\* in every reachable state: esp_camera_fb_get() is never called while a
\* frame is outstanding, and no frame is outstanding while loop() samples
\* the button (polling, waiting for release, tail delay).
C13_OneFrameOutstanding ==
  /\ [](fbOut <= 1)
  /\ [](pc \in {"poll", "wait", "tail"} => fbOut = 0)
  /\ [][fbOut' > fbOut => fbOut = 0]_vars

\* a frame is obtained by a later capture after an earlier one was saved
C13_SecondFrame == pc = "tp_name" /\ fbOut = 1 /\ usedIdx # {}

\* takePhoto() is between its ledOn() and its ledOff()
InTakePhoto ==
  pc \in {"tp_get", "tp_name", "tp_open", "tp_write", "tp_flush", "tp_close", "tp_return"}

\* C14: once setup() has completed, the indicator is signalled busy exactly
\* while takePhoto() runs, from its first statement to its return on every
\* exit, and idle while loop() polls, waits for release or delays.  With
\* LED_PIN negative the signalled state drives no line.
C14_BusyDuringCapture ==
  /\ pc \notin {"setup", "setup_cam", "halt"} => (led = ledOn <=> InTakePhoto)
  /\ pc \in {"poll", "wait", "tail", "tp_ret"} => led = ledOff
  /\ LED_PIN < 0 => LedLevel = "undriven"

\* takePhoto() has returned without a frame and the indicator is idle again
C14_IdleAfterSensorFault ==
  pc = "tp_ret" /\ ~fb /\ Calls("ledOn") = 1 /\ Calls("ledOff") = 1 /\ led = ledOff

\* C15: when the count fails, idx is the current value of millis(), and an
\* index taken from millis() differs from every other index of the session:
\* from the indices of the captures saved before and from earlier clock
\* indices, and no later index taken from the count equals it.
C15_FallbackUnique ==
  /\ [][(pc = "tp_name" /\ byClock') => idx' = ToInt32(ms)]_vars
  /\ [](pc = "tp_open" =>
          /\ idx \notin clockIdx
          /\ byClock => idx \notin usedIdx)

\* takePhoto() has returned after a capture that was written and flushed
Saved == pc = "tp_ret" /\ out = "Saved" /\ wrOk /\ flOk

\* C16: a successful capture creates exactly one new file: the file it
\* opened did not exist before the call, nothing but the open changes the
\* directory, and the open adds exactly one entry.
C16_OneNewFile ==
  /\ [](Saved => ~existed)
  /\ [][files' # files => (pc = "tp_open" /\ fState' = "open")]_vars
  /\ [][(pc = "tp_open" /\ fState' = "open") =>
          Cardinality(files') = Cardinality(files) + 1]_vars

\* C17: the frame is not read after it was given back: f.write, the only
\* statement that reads fb->buf and fb->len, runs while the frame is
\* outstanding and comes before esp_camera_fb_return(); when the file was
\* opened the frame is given back only after write, flush and close; and
\* nothing but ledOff() follows the release.
C17_NoUseAfterRelease ==
  /\ pc = "tp_write" => fb /\ fbOut = 1
  /\ \A r \in OpsAt("fb_return") :
       /\ \A w \in OpsAt("write") : w < r
       /\ \A i \in DOMAIN ops : i > r => ops[i] = "ledOff"
       /\ fState # "invalid" =>
            \E c \in OpsAt("close") : c < r /\
              \E f \in OpsAt("flush") : f < c /\
                \E w \in OpsAt("write") : w < f

\* a capture went through write, flush and close and then gave the frame back
C17_ReleasedAfterClose ==
  /\ pc = "tp_ret"
  /\ ops = <<"ledOn", "fb_get", "readFileNum", "open", "write", "flush",
             "close", "fb_return", "ledOff">>
  /\ fbOut = 0

C19_WrapSafe ==
  /\ (pc = "poll" /\ last = LOW /\ btn = LOW) =>
       /\ Sub32(ms, edge) = up - edgeUp
       /\ Debounced(ms, edge) <=> (up - edgeUp > DEBOUNCE_MS)
  /\ pc = "wait" =>
       /\ Sub32(ms, t0) = wdt * RELEASE_POLL
       /\ ReleaseTimedOut(ms, t0) <=> (wdt * RELEASE_POLL > RELEASE_TIMEOUT)

\* takePhoto() is called for a press whose falling edge was recorded before
\* the counter wrapped, DEBOUNCE_MS + 1 ms after that edge
C19_ShotAcrossWrap ==
  pc = "takePhoto" /\ ms < edge /\ up - edgeUp = DEBOUNCE_MS + 1

====
